---- MODULE Spec2Model ----
(***************************************************************************)
(* BlogDCR: the editorial workflow of main/views.py over the records of    *)
(* main/models.py.  The state is the database (submissions, the four       *)
(* content tables, the FeaturedContent side table, the HomepageConfig      *)
(* singleton), the clock, and the HTTP response to the last request.  Each *)
(* view is one action; its inputs (the requesting user, the URL            *)
(* parameters, the POST form) are drawn from small sets.  feature_content  *)
(* is also given statement by statement, for requests that two workers     *)
(* serve at the same time.                                                 *)
(***************************************************************************)
EXTENDS Integers, Sequences, FiniteSets, TLC

\* ------------------------------------------------------------------ bounds
\* Submissions ever created.
MaxSub == 1
\* Content rows ever created, over the four tables together.
MaxRows == 2
\* The clock runs 0..MaxTime.
MaxTime == 1
\* FeaturedContent rows ever created.
MaxFeatured == 2
\* Authorized feature_content calls counted per (content_type, object_id).
MaxCalls == 3
\* Files tinymce_upload_image has stored.
MaxUploads == 1

\* ------------------------------------------------------------ basic values
\* Python's None, and '' for a blank CharField.
Null == <<>>
Blank == ""

\* request.user: anonymous, a logged-in user who is no superuser, a superuser.
Users == {"anonymous", "member", "editor"}
is_authenticated(u) == u # "anonymous"

\* Mutant: any logged-in user passes for a superuser.
is_superuser_Mutant(u) == is_authenticated(u)

is_superuser(u) == u = "editor"

Methods == {"GET", "POST"}

\* models.ContentStatus
PENDING == "pending"
PUBLISHED == "published"
ARCHIVED == "archived"
PRIVATE == "private"
REJECTED == "rejected"
ContentStatus == {PENDING, PUBLISHED, ARCHIVED, PRIVATE, REJECTED}

\* The keys of the views' model_map: article, session, playlist, media.
model_map == {"article", "session", "playlist", "media"}
\* The <str:content_type> URL parameter: the four keys and one that is none.
KindParams == model_map \cup {"podcast"}
\* The <int:...> URL parameters.
SubIds == 1..(MaxSub + 1)
RowIds == 1..MaxRows

\* ------------------------------------------------------------- submit form
SpotifyUrl == "https://open.spotify.com/playlist/abc"

Form(t, d, who, ct, text, url, plat, file) ==
    [title |-> t, description |-> d, author_name |-> who,
     author_email |-> "ann@dartmouth.edu", author_class_year |-> "26",
     content_type |-> ct, content_text |-> text, playlist_url |-> url,
     platform |-> plat, files |-> file]

\* The POST forms submit_content is given.
SubmitForms ==
    { Form("Spring show", "A review", "Ann", "article", "<p>body</p>", Blank, Blank, Blank),
      Form("Study mix", "Late night", "Ben", "playlist", Blank, SpotifyUrl, "spotify", Blank),
      Form("Basement set", "Live", "Ann", "session", Blank, Blank, Blank, Blank),
      Form("Poster", "Ink on paper", "Cat", "artwork", Blank, Blank, Blank, "poster.png"),
      Form("Gig night", "Event recap", "Ben", "event", Blank, Blank, Blank, Blank) }

\* Those forms and four more: the content types that share a branch of
\* approve_submission with another, and an 'event' that carries body text.
DispatchForms ==
    SubmitForms \cup
    { Form("Talk", "With the band", "Ann", "interview", "<p>q and a</p>", Blank, Blank, Blank),
      Form("Quad", "35mm", "Cat", "photography", Blank, Blank, Blank, "quad.jpg"),
      Form("Clip", "Teaser", "Ben", "media", Blank, Blank, Blank, "clip.mp4"),
      Form("Fest", "Festival recap", "Cat", "event", "<p>recap</p>", Blank, Blank, Blank) }

\* ------------------------------------------------------------------ state
VARIABLES
    submissions,    \* Submission rows: id -> row
    objects,        \* the content tables: model_map key -> (id -> row)
    next_id,        \* the auto-increment counter of each table
    featured_rows,  \* FeaturedContent rows: id -> row
    config,         \* HomepageConfig rows: pk -> row
    stored_files,   \* default_storage: the files saved under tinymce/
    now,            \* timezone.now()
    resp,           \* the response to the last request: the view and its HTTP status
    created_from,   \* history: content rows created from each submission id
    feature_calls,  \* history: authorized feature_content calls per key
    requests        \* the feature_content requests in flight: worker -> its locals

db == <<submissions, objects, next_id, featured_rows, config, stored_files>>
history == <<created_from, feature_calls>>
vars == <<submissions, objects, next_id, featured_rows, config, stored_files,
          now, resp, created_from, feature_calls, requests>>

Tables == model_map \cup {"submission"}
FeatureKeys == KindParams \X RowIds

\* The server's workers, each handling one request at a time, and a worker that
\* is handling none.
Workers == {"w1", "w2"}
Idle == [pc |-> "idle", user |-> Null, key |-> Null, featured |-> Null,
         integrity_error |-> FALSE]

\* Rows created so far in the four content tables.
RowsCreated ==
    (next_id["article"] - 1) + (next_id["session"] - 1)
    + (next_id["playlist"] - 1) + (next_id["media"] - 1)

Init ==
    /\ submissions = <<>>
    /\ objects = [k \in model_map |-> <<>>]
    /\ next_id = [k \in Tables |-> 1]
    /\ featured_rows = <<>>
    /\ config = <<>>
    /\ stored_files = {}
    /\ now = 0
    /\ resp = [view |-> "none", status |-> 0]
    /\ created_from = [i \in SubIds |-> 0]
    /\ feature_calls = [key \in FeatureKeys |-> 0]
    /\ requests = [w \in Workers |-> Idle]

\* JsonResponse / render / redirect of `view` with HTTP status `code`.
Respond(view, code) == resp' = [view |-> view, status |-> code]

\* f with row `id` added or replaced, and with it removed.
Put(f, id, row) == (id :> row) @@ f
Drop(f, id) == [i \in DOMAIN f \ {id} |-> f[i]]

\* The clock advances between requests.
Tick ==
    /\ now < MaxTime
    /\ now' = now + 1
    /\ UNCHANGED <<db, resp, history, requests>>

\* ------------------------------------------------------------------ models
\* The BaseContent fields approve_submission passes, and the defaults of the rest.
BaseContent(s, t) ==
    [title |-> s.title, description |-> s.description,
     author_name |-> s.author_name, author_email |-> s.author_email,
     author_class_year |-> s.author_class_year,
     status |-> PUBLISHED, content_type |-> s.content_type,
     created_at |-> t, updated_at |-> t, published_at |-> <<t>>,
     custom_publication_date |-> Null, views |-> 0, featured |-> FALSE,
     homepage_order |-> 0]

Article(base, content) ==
    base @@ [content |-> content, excerpt |-> Blank, cover_image |-> Blank,
             article_type |-> "feature"]

Session(base) ==
    base @@ [session_type |-> Blank, location |-> Blank, video_url |-> Blank,
             audio_url |-> Blank, cover_image |-> Blank, content |-> Blank]

Playlist(base, platform, playlist_url) ==
    base @@ [platform |-> platform, playlist_url |-> playlist_url,
             track_count |-> 0, duration |-> Blank, cover_color |-> "#000000",
             platform_id |-> Blank, embed_html |-> Blank, creator_name |-> Blank,
             genre |-> Blank]

Media(base) ==
    base @@ [media_type |-> Blank, file |-> Blank, file_size |-> Blank,
             dimensions |-> Blank]

\* main.utils.music_platforms, a lookup on the URL: the embed markup, or None,
\* and the metadata mapping (a key it lacks is None), or None.
SoundCloudUrl == "https://soundcloud.com/wdcr/sets/x"

generate_music_embed(url) ==
    IF url = SpotifyUrl THEN <<"<iframe spotify:abc>">> ELSE Null

extract_playlist_metadata(url) ==
    IF url = SpotifyUrl THEN <<[spotify_id |-> <<"abc">>, creator |-> Null]>>
    ELSE IF url = SoundCloudUrl THEN <<[spotify_id |-> Null, creator |-> <<"wdcr">>]>>
    ELSE Null

\* Playlist.save(): the fields derived from playlist_url, then the row as stored.
PlaylistSave(p) ==
    IF p.playlist_url # Blank
    THEN LET embed == generate_music_embed(p.playlist_url)
             metadata == extract_playlist_metadata(p.playlist_url)
             p1 == [p EXCEPT !.embed_html = IF embed # Null THEN embed[1] ELSE Blank]
         IN IF metadata # Null
            THEN LET m == metadata[1]
                     p2 == [p1 EXCEPT !.platform_id =
                               IF m.spotify_id # Null THEN m.spotify_id[1] ELSE Blank]
                 IN IF m.creator # Null /\ p2.creator_name = Blank
                    THEN [p2 EXCEPT !.creator_name = m.creator[1]]
                    ELSE p2
            ELSE p1
    ELSE p

\* Submission.objects.create(...) of submit_content, with the uploaded file.
Submission(form, t) ==
    [title |-> form.title, description |-> form.description,
     author_name |-> form.author_name, author_email |-> form.author_email,
     author_class_year |-> form.author_class_year,
     content_type |-> form.content_type, content_text |-> form.content_text,
     playlist_url |-> form.playlist_url, platform |-> form.platform,
     files |-> form.files, created_at |-> t, reviewed |-> FALSE, approved |-> FALSE]

\* ------------------------------------------------------------ submissions
\* Mutant: the key is the number of rows in the table plus one.
NewId_Mutant(k) ==
    IF k = "submission" THEN next_id[k] ELSE Cardinality(DOMAIN objects[k]) + 1

\* The primary key Model.objects.create() gives a new row of table k: the
\* table's auto-increment counter, which a delete never lowers.
NewId(k) == next_id[k]

submit_content(method, form) ==
    IF method = "POST"
    THEN /\ next_id["submission"] <= MaxSub
         /\ submissions' = Put(submissions, NewId("submission"), Submission(form, now))
         /\ next_id' = [next_id EXCEPT !["submission"] = NewId("submission") + 1]
         /\ Respond("submit_content", 302)
         /\ UNCHANGED <<objects, featured_rows, config, stored_files, now, history, requests>>
    ELSE /\ Respond("submit_content", 200)
         /\ UNCHANGED <<db, now, history, requests>>

\* Mutant: an 'interview' is filed with the articles.
ApprovedModel_Mutant(s) ==
    IF s.content_type \in {"article", "interview"} THEN "article"
    ELSE IF s.content_type = "playlist" THEN "playlist"
    ELSE IF s.content_type = "session" THEN "session"
    ELSE IF s.content_type \in {"artwork", "photography", "media"} THEN "media"
    ELSE "article"

\* The branch of approve_submission taken: the table the new row goes to.
ApprovedModel(s) ==
    IF s.content_type = "article" THEN "article"
    ELSE IF s.content_type = "playlist" THEN "playlist"
    ELSE IF s.content_type \in {"session", "interview"} THEN "session"
    ELSE IF s.content_type \in {"artwork", "photography", "media"} THEN "media"
    ELSE "article"

\* Mutant: the description is stored as the body.
ApprovedArticle_Mutant(s, t) == Article(BaseContent(s, t), s.description)

ApprovedArticle(s, t) == Article(BaseContent(s, t), s.content_text)
\* Mutant: the new playlist is dated by the submission, not by the approval.
ApprovedPlaylist_Mutant(s, t) ==
    PlaylistSave(Playlist([BaseContent(s, t) EXCEPT !.published_at = <<s.created_at>>],
                          s.platform, s.playlist_url))

ApprovedPlaylist(s, t) ==
    PlaylistSave(Playlist(BaseContent(s, t), s.platform, s.playlist_url))
ApprovedSession(s, t) == Session(BaseContent(s, t))
ApprovedMedia(s, t) == Media(BaseContent(s, t))
ApprovedDefault(s, t) ==
    Article(BaseContent(s, t),
            IF s.content_text # Blank THEN s.content_text ELSE s.description)

\* The row approve_submission creates from submission s at time t.
ApprovedRow(s, t) ==
    IF s.content_type = "article" THEN ApprovedArticle(s, t)
    ELSE IF s.content_type = "playlist" THEN ApprovedPlaylist(s, t)
    ELSE IF s.content_type \in {"session", "interview"} THEN ApprovedSession(s, t)
    ELSE IF s.content_type \in {"artwork", "photography", "media"} THEN ApprovedMedia(s, t)
    ELSE ApprovedDefault(s, t)

\* Mutant: approval rewrites content_type to the table the row went to.
MarkApproved_Mutant(s) ==
    [s EXCEPT !.reviewed = TRUE, !.approved = TRUE, !.content_type = ApprovedModel(s)]

\* Mutant: approval sets approved and forgets reviewed.
MarkApproved_Unreviewed(s) == [s EXCEPT !.approved = TRUE]

\* submission.reviewed = True; submission.approved = True; submission.save()
MarkApproved(s) == [s EXCEPT !.reviewed = TRUE, !.approved = TRUE]
\* Mutant: rejection leaves approved as it was.
MarkRejected_Mutant(s) == [s EXCEPT !.reviewed = TRUE]

\* submission.reviewed = True; submission.approved = False; submission.save()
MarkRejected(s) == [s EXCEPT !.reviewed = TRUE, !.approved = FALSE]

approve_submission(u, sid) ==
    IF ~is_authenticated(u) \/ ~is_superuser(u)
    THEN Respond("approve_submission", 403) /\ UNCHANGED <<db, now, history, requests>>
    ELSE IF sid \notin DOMAIN submissions
    THEN Respond("approve_submission", 404) /\ UNCHANGED <<db, now, history, requests>>
    ELSE LET s == submissions[sid]
             k == ApprovedModel(s)
         IN /\ RowsCreated < MaxRows
            /\ objects' = [objects EXCEPT ![k] = Put(@, NewId(k), ApprovedRow(s, now))]
            /\ next_id' = [next_id EXCEPT ![k] = NewId(k) + 1]
            /\ submissions' = [submissions EXCEPT ![sid] = MarkApproved(s)]
            /\ created_from' = [created_from EXCEPT ![sid] = @ + 1]
            /\ Respond("approve_submission", 200)
            /\ UNCHANGED <<featured_rows, config, stored_files, now, feature_calls,
                           requests>>

reject_submission(u, sid) ==
    IF ~is_authenticated(u) \/ ~is_superuser(u)
    THEN Respond("reject_submission", 403) /\ UNCHANGED <<db, now, history, requests>>
    ELSE IF sid \notin DOMAIN submissions
    THEN Respond("reject_submission", 404) /\ UNCHANGED <<db, now, history, requests>>
    ELSE /\ submissions' = [submissions EXCEPT ![sid] = MarkRejected(@)]
         /\ Respond("reject_submission", 200)
         /\ UNCHANGED <<objects, next_id, featured_rows, config, stored_files, now, history, requests>>

\* @login_required: an anonymous request is redirected to the login page.
preview_submission(u, sid) ==
    /\ IF ~is_authenticated(u) THEN Respond("preview_submission", 302)
       ELSE IF ~is_superuser(u) THEN Respond("preview_submission", 302)
       ELSE IF sid \notin DOMAIN submissions THEN Respond("preview_submission", 404)
       ELSE Respond("preview_submission", 200)
    /\ UNCHANGED <<db, now, history, requests>>

\* ------------------------------------------------------- content management
\* Model.save() of a content row: auto_now stamps updated_at, and a Playlist
\* runs its own save().
Save(k, row, t) ==
    LET r == [row EXCEPT !.updated_at = t]
    IN IF k = "playlist" THEN PlaylistSave(r) ELSE r

\* Mutant: hiding a published row archives it.
ToggledStatus_Mutant(status) == IF status = PUBLISHED THEN ARCHIVED ELSE PUBLISHED

\* Mutant: only a private row is published; any other status is left as it is.
ToggledStatus_Cycle(status) ==
    IF status = PUBLISHED THEN PRIVATE
    ELSE IF status = PRIVATE THEN PUBLISHED
    ELSE status

\* The status a toggle leaves: published becomes private, anything else published.
ToggledStatus(status) == IF status = PUBLISHED THEN PRIVATE ELSE PUBLISHED

\* @require_http_methods(["POST"]) outside @login_required.
toggle_media_status(method, u, media_id) ==
    IF method # "POST"
    THEN Respond("toggle_media_status", 405) /\ UNCHANGED <<db, now, history, requests>>
    ELSE IF ~is_authenticated(u)
    THEN Respond("toggle_media_status", 302) /\ UNCHANGED <<db, now, history, requests>>
    ELSE IF ~is_superuser(u)
    THEN Respond("toggle_media_status", 403) /\ UNCHANGED <<db, now, history, requests>>
    ELSE IF media_id \notin DOMAIN objects["media"]
    THEN Respond("toggle_media_status", 404) /\ UNCHANGED <<db, now, history, requests>>
    ELSE LET media_item == objects["media"][media_id]
             toggled == [media_item EXCEPT !.status = ToggledStatus(@)]
         IN /\ Respond("toggle_media_status", 200)
            /\ objects' = [objects EXCEPT !["media"][media_id] = Save("media", toggled, now)]
            /\ UNCHANGED <<submissions, next_id, featured_rows, config, stored_files, now, history, requests>>

toggle_content_visibility(u, content_type, content_id) ==
    IF ~is_authenticated(u)
    THEN Respond("toggle_content_visibility", 302) /\ UNCHANGED <<db, now, history, requests>>
    ELSE IF ~is_superuser(u)
    THEN Respond("toggle_content_visibility", 403) /\ UNCHANGED <<db, now, history, requests>>
    ELSE IF content_type \notin model_map
    THEN Respond("toggle_content_visibility", 400) /\ UNCHANGED <<db, now, history, requests>>
    ELSE IF content_id \notin DOMAIN objects[content_type]
    THEN Respond("toggle_content_visibility", 404) /\ UNCHANGED <<db, now, history, requests>>
    ELSE LET content == objects[content_type][content_id]
             toggled == [content EXCEPT !.status = ToggledStatus(@)]
         IN /\ Respond("toggle_content_visibility", 200)
            /\ objects' = [objects EXCEPT
                              ![content_type][content_id] = Save(content_type, toggled, now)]
            /\ UNCHANGED <<submissions, next_id, featured_rows, config, stored_files, now, history, requests>>

\* HomepageConfig.featured_article is on_delete=SET_NULL.
SetNull(cfg, article_id) ==
    [pk \in DOMAIN cfg |->
        IF cfg[pk].featured_article = <<article_id>>
        THEN [cfg[pk] EXCEPT !.featured_article = Null]
        ELSE cfg[pk]]

delete_content(u, content_type, content_id) ==
    IF ~is_authenticated(u)
    THEN Respond("delete_content", 302) /\ UNCHANGED <<db, now, history, requests>>
    ELSE IF ~is_superuser(u)
    THEN Respond("delete_content", 403) /\ UNCHANGED <<db, now, history, requests>>
    ELSE IF content_type \notin model_map
    THEN Respond("delete_content", 400) /\ UNCHANGED <<db, now, history, requests>>
    ELSE IF content_id \notin DOMAIN objects[content_type]
    THEN Respond("delete_content", 404) /\ UNCHANGED <<db, now, history, requests>>
    ELSE /\ Respond("delete_content", 200)
         /\ objects' = [objects EXCEPT ![content_type] = Drop(@, content_id)]
         /\ config' = IF content_type = "article" THEN SetNull(config, content_id) ELSE config
         /\ UNCHANGED <<submissions, next_id, featured_rows, stored_files, now, history, requests>>

\* The POST form of edit_content.
EditForm(status, date) ==
    [title |-> "Edited", description |-> "Edited text", status |-> status,
     custom_publication_date |-> date, content |-> "<p>edited</p>",
     playlist_url |-> SoundCloudUrl, platform |-> "soundcloud",
     session_type |-> "live", video_url |-> "https://youtu.be/x"]

StatusForms == {EditForm(st, Blank) : st \in {PENDING, ARCHIVED, REJECTED}}
DateForms == {EditForm(PUBLISHED, "2024-05-01"), EditForm(PRIVATE, "05/01/2024")}
EditForms == StatusForms \cup DateForms

\* A GET carries no form.
NoForm == EditForm(Blank, Blank)

\* datetime.strptime(custom_date, '%Y-%m-%d') raises ValueError on any other format.
ValidDates == {"2024-05-01"}

\* The fields edit_content assigns from the form, before content.save().
Edited(content_type, content, form) ==
    LET c0 == [content EXCEPT
                  !.title = form.title,
                  !.description = form.description,
                  !.status = form.status,
                  !.custom_publication_date =
                      IF form.custom_publication_date # Blank
                      THEN <<form.custom_publication_date>> ELSE Null]
    IN IF content_type = "article"
       THEN [c0 EXCEPT !.content = form.content]
       ELSE IF content_type = "playlist"
       THEN [c0 EXCEPT !.playlist_url = form.playlist_url, !.platform = form.platform]
       ELSE IF content_type = "session"
       THEN [c0 EXCEPT !.session_type = form.session_type,
                      !.video_url = form.video_url, !.content = form.content]
       ELSE c0

edit_content(method, u, content_type, content_id, form) ==
    IF ~is_authenticated(u)
    THEN Respond("edit_content", 302) /\ UNCHANGED <<db, now, history, requests>>
    ELSE IF ~is_superuser(u)
    THEN Respond("edit_content", 302) /\ UNCHANGED <<db, now, history, requests>>
    ELSE IF content_type \notin model_map
    THEN Respond("edit_content", 302) /\ UNCHANGED <<db, now, history, requests>>
    ELSE IF content_id \notin DOMAIN objects[content_type]
    THEN Respond("edit_content", 404) /\ UNCHANGED <<db, now, history, requests>>
    ELSE IF method # "POST"
    THEN Respond("edit_content", 200) /\ UNCHANGED <<db, now, history, requests>>
    ELSE IF form.custom_publication_date # Blank
            /\ form.custom_publication_date \notin ValidDates
    THEN Respond("edit_content", 500) /\ UNCHANGED <<db, now, history, requests>>
    ELSE LET content == objects[content_type][content_id]
         IN /\ Respond("edit_content", 200)
            /\ objects' = [objects EXCEPT ![content_type][content_id] =
                              Save(content_type, Edited(content_type, content, form), now)]
            /\ UNCHANGED <<submissions, next_id, featured_rows, config, stored_files, now, history, requests>>

\* ---------------------------------------------------------------- homepage
\* FeaturedContent.objects.get_or_create(content_type=, object_id=, defaults=...):
\* the row created when the key has none.
NewFeatured(content_type, object_id, u, t) ==
    [content_type |-> content_type, object_id |-> object_id,
     featured_on_homepage |-> TRUE, featured_in_section |-> FALSE, priority |-> 1,
     featured_at |-> t, featured_by |-> u]

\* The primary keys of the FeaturedContent rows with this (content_type, object_id).
FeaturedOf(key) ==
    {pk \in DOMAIN featured_rows :
        /\ featured_rows[pk].content_type = key[1]
        /\ featured_rows[pk].object_id = key[2]}

\* The primary key of a new FeaturedContent row; no view deletes one.
NewFeaturedId == Cardinality(DOMAIN featured_rows) + 1

\* Mutant: the table has no unique constraint.
unique_together_Mutant(key) == TRUE

\* unique_together = ['content_type', 'object_id']: the database accepts an
\* INSERT for the key only while no row has it.
unique_together(key) == FeaturedOf(key) = {}

\* Mutant: a repeated call sets the flag instead of flipping it.
FlipFeatured_Mutant(row, u) ==
    [row EXCEPT !.featured_on_homepage = TRUE, !.featured_by = u]

\* if not created: the flag is flipped and the row saved.
FlipFeatured(row, u) ==
    [row EXCEPT !.featured_on_homepage = ~@, !.featured_by = u]

\* The view run by one worker with no other request in between.
feature_content(u, content_type, content_id) ==
    IF ~is_authenticated(u)
    THEN Respond("feature_content", 302) /\ UNCHANGED <<db, now, history, requests>>
    ELSE IF ~is_superuser(u)
    THEN Respond("feature_content", 403) /\ UNCHANGED <<db, now, history, requests>>
    ELSE LET key == <<content_type, content_id>>
             found == FeaturedOf(key)
             created == found = {}
         IN IF Cardinality(found) > 1
            THEN \* get() raises MultipleObjectsReturned
                 /\ Respond("feature_content", 500)
                 /\ UNCHANGED <<db, now, history, requests>>
            ELSE /\ feature_calls[key] < MaxCalls
                 /\ created => Cardinality(DOMAIN featured_rows) < MaxFeatured
                 /\ featured_rows' =
                       IF created
                       THEN Put(featured_rows, NewFeaturedId,
                                NewFeatured(content_type, content_id, u, now))
                       ELSE LET pk == CHOOSE i \in found : TRUE
                            IN [featured_rows EXCEPT ![pk] = FlipFeatured(@, u)]
                 /\ feature_calls' = [feature_calls EXCEPT ![key] = @ + 1]
                 /\ Respond("feature_content", 200)
                 /\ UNCHANGED <<submissions, objects, next_id, config, stored_files, now,
                                created_from, requests>>

\* The same view as the steps of one worker among others: the request arrives,
\* get_or_create reads, get_or_create inserts, the flipped row is saved.  Each
\* step is one statement on the database; other workers' steps come between.
\* @login_required and the superuser test; a request that passes is in flight.
feature_content_begin(w, u, content_type, content_id) ==
    /\ requests[w].pc = "idle"
    /\ IF ~is_authenticated(u)
       THEN Respond("feature_content", 302) /\ UNCHANGED <<db, now, history, requests>>
       ELSE IF ~is_superuser(u)
       THEN Respond("feature_content", 403) /\ UNCHANGED <<db, now, history, requests>>
       ELSE LET key == <<content_type, content_id>>
            IN /\ feature_calls[key] < MaxCalls
               /\ requests' = [requests EXCEPT ![w] =
                                  [Idle EXCEPT !.pc = "get", !.user = <<u>>, !.key = key]]
               /\ feature_calls' = [feature_calls EXCEPT ![key] = @ + 1]
               /\ UNCHANGED <<db, now, resp, created_from>>

\* The worker's request is answered; what remains is whether get_or_create had
\* met an IntegrityError.
Answer(w, code) ==
    /\ requests' = [requests EXCEPT ![w] =
                       [Idle EXCEPT !.integrity_error = requests[w].integrity_error]]
    /\ Respond("feature_content", code)

\* The worker's copy of the row get() returned.
Got(w, pk) ==
    [requests[w] EXCEPT !.pc = "flip", !.featured = <<[pk |-> pk, row |-> featured_rows[pk]]>>]

\* get_or_create: the SELECT. A row found is copied to the worker (created is
\* False); none found, the INSERT follows.
get_or_create_get(w) ==
    /\ requests[w].pc = "get"
    /\ LET found == FeaturedOf(requests[w].key)
       IN IF found = {}
          THEN /\ requests' = [requests EXCEPT ![w].pc = "create"]
               /\ UNCHANGED <<db, now, resp, history>>
          ELSE IF Cardinality(found) > 1
          THEN Answer(w, 500) /\ UNCHANGED <<db, now, history>>
          ELSE /\ requests' = [requests EXCEPT ![w] = Got(w, CHOOSE pk \in found : TRUE)]
               /\ UNCHANGED <<db, now, resp, history>>

\* get_or_create: the INSERT. The database accepts it (created is True, and the
\* view answers), or refuses it with an IntegrityError, on which get_or_create
\* reads the row another request has inserted since (created is False).
get_or_create_create(w) ==
    /\ requests[w].pc = "create"
    /\ LET key == requests[w].key
           u == requests[w].user[1]
       IN IF unique_together(key)
          THEN /\ Cardinality(DOMAIN featured_rows) < MaxFeatured
               /\ featured_rows' = Put(featured_rows, NewFeaturedId,
                                       NewFeatured(key[1], key[2], u, now))
               /\ Answer(w, 200)
               /\ UNCHANGED <<submissions, objects, next_id, config, stored_files, now,
                              history>>
          ELSE /\ requests' = [requests EXCEPT ![w] =
                                  [Got(w, CHOOSE pk \in FeaturedOf(key) : TRUE)
                                      EXCEPT !.integrity_error = TRUE]]
               /\ UNCHANGED <<db, now, resp, history>>

\* Mutant: the save flips the flag the row has in the database at that time.
SavedFeatured_Mutant(stored, featured, u) == FlipFeatured(stored, u)

\* featured.save() writes the worker's copy, its flag flipped, over the stored row.
SavedFeatured(stored, featured, u) == FlipFeatured(featured, u)

\* if not created: the flip and featured.save(); the view answers.
featured_save(w) ==
    /\ requests[w].pc = "flip"
    /\ LET featured == requests[w].featured[1]
           u == requests[w].user[1]
       IN /\ featured_rows' = [featured_rows EXCEPT
                                  ![featured.pk] = SavedFeatured(@, featured.row, u)]
          /\ Answer(w, 200)
          /\ UNCHANGED <<submissions, objects, next_id, config, stored_files, now, history>>

DefaultSectionsOrder == <<"featured", "sessions", "playlists">>

\* The row HomepageConfig.get_current() creates: the defaults it passes, and the
\* field defaults of the model for the rest.
DefaultConfig(t) ==
    [featured_article |-> Null, featured_title |-> Blank, featured_description |-> Blank,
     featured_button_text |-> "Read Full Interview", featured_image |-> Null,
     show_featured_section |-> TRUE, show_sessions_section |-> TRUE,
     show_playlists_section |-> TRUE, sessions_count |-> 3, playlists_count |-> 3,
     sections_order |-> DefaultSectionsOrder, hero_title |-> Blank,
     hero_subtitle |-> Blank, created_at |-> t, updated_at |-> t, updated_by |-> Null]

\* Mutant: update_or_create, which resets an existing row to the defaults.
get_current_Mutant(cfg, t) == Put(cfg, 1, DefaultConfig(t))

\* HomepageConfig.get_current(): get_or_create(pk=1, defaults=...).
get_current(cfg, t) == IF 1 \in DOMAIN cfg THEN cfg ELSE Put(cfg, 1, DefaultConfig(t))

\* HomepageConfig.save(): an empty sections_order becomes the default order.
ConfigSave(c, t) ==
    LET c1 == [c EXCEPT !.updated_at = t]
    IN IF c1.sections_order = <<>>
       THEN [c1 EXCEPT !.sections_order = DefaultSectionsOrder]
       ELSE c1

\* Article.objects.get(id=article_id, status=ContentStatus.PUBLISHED) finds a row.
PublishedArticle(article_id) ==
    /\ article_id # Null
    /\ article_id[1] \in DOMAIN objects["article"]
    /\ objects["article"][article_id[1]].status = PUBLISHED

\* The POST forms of homepage_editor.
\* The item counts an editor's form carries; no branch of the view reads them.
PostedSessionsCount == 5
PostedPlaylistsCount == 6

HomeForm(action, on, hero, article_id, text, image, remove, order) ==
    [action |-> action, show_featured_section |-> on, show_sessions_section |-> on,
     show_playlists_section |-> on, hero_title |-> hero, hero_subtitle |-> hero,
     article_id |-> article_id, featured_title |-> text, featured_description |-> text,
     featured_button_text |-> "Read", featured_image |-> image,
     remove_image |-> remove, sections_order |-> order,
     sessions_count |-> PostedSessionsCount, playlists_count |-> PostedPlaylistsCount]

HomeForms ==
    {HomeForm("update_config", on, "WDCR", Null, Blank, Null, FALSE, <<>>) :
        on \in {"on", Blank}}
    \cup {HomeForm("set_featured_article", Blank, Blank, a, Blank, Null, FALSE, <<>>) :
        a \in {Null} \cup {<<i>> : i \in RowIds}}
    \cup {HomeForm("update_featured_content", Blank, Blank, a, "Pick", img, rm, <<>>) :
        a \in {Null} \cup {<<i>> : i \in RowIds},
        img \in {Null, <<"hero.png">>}, rm \in BOOLEAN}
    \cup {HomeForm("update_sections_order", Blank, Blank, Null, Blank, Null, FALSE, o) :
        o \in {<<>>, <<"playlists", "featured">>}}
    \cup {HomeForm("other", Blank, Blank, Null, Blank, Null, FALSE, <<>>)}

\* The configuration after the POST branch of homepage_editor.
ConfigPosted(c, u, form, t) ==
    IF form.action = "update_config"
    THEN ConfigSave([c EXCEPT
             !.show_featured_section = (form.show_featured_section = "on"),
             !.show_sessions_section = (form.show_sessions_section = "on"),
             !.show_playlists_section = (form.show_playlists_section = "on"),
             !.hero_title = form.hero_title,
             !.hero_subtitle = form.hero_subtitle,
             !.updated_by = <<u>>], t)
    ELSE IF form.action = "set_featured_article"
    THEN IF PublishedArticle(form.article_id)
         THEN ConfigSave([c EXCEPT !.featured_article = form.article_id,
                                   !.updated_by = <<u>>], t)
         ELSE c
    ELSE IF form.action = "update_featured_content"
    THEN LET c1 == IF PublishedArticle(form.article_id)
                   THEN [c EXCEPT !.featured_article = form.article_id]
                   ELSE c
             image == IF form.featured_image # Null THEN form.featured_image
                      ELSE IF form.remove_image THEN Null
                      ELSE c1.featured_image
         IN ConfigSave([c1 EXCEPT
                !.featured_title = form.featured_title,
                !.featured_description = form.featured_description,
                !.featured_button_text = form.featured_button_text,
                !.featured_image = image,
                !.updated_by = <<u>>], t)
    ELSE IF form.action = "update_sections_order"
    THEN ConfigSave([c EXCEPT !.sections_order = form.sections_order,
                              !.updated_by = <<u>>], t)
    ELSE c

homepage_editor(method, u, form) ==
    IF ~is_authenticated(u)
    THEN Respond("homepage_editor", 302) /\ UNCHANGED <<db, now, history, requests>>
    ELSE IF ~is_superuser(u)
    THEN Respond("homepage_editor", 302) /\ UNCHANGED <<db, now, history, requests>>
    ELSE LET cfg == get_current(config, now)
         IN /\ config' = IF method = "POST"
                         THEN [cfg EXCEPT ![1] = ConfigPosted(@, u, form, now)]
                         ELSE cfg
            /\ Respond("homepage_editor", 200)
            /\ UNCHANGED <<submissions, objects, next_id, featured_rows, stored_files,
                           now, history, requests>>

\* ------------------------------------------------------------------ uploads
MaxUploadBytes == 5 * 1024 * 1024
allowed_types == {"image/jpeg", "image/png", "image/gif", "image/webp"}

\* request.FILES.get('file'): no file, an image, a PDF, an image over the ceiling.
UploadFiles ==
    { Null,
      <<[name |-> "a.png", content_type |-> "image/png", size |-> 1024]>>,
      <<[name |-> "a.pdf", content_type |-> "application/pdf", size |-> 1024]>>,
      <<[name |-> "b.png", content_type |-> "image/png", size |-> MaxUploadBytes + 1]>> }

tinymce_upload_image(method, u, file) ==
    IF ~is_authenticated(u)
    THEN Respond("tinymce_upload_image", 302) /\ UNCHANGED <<db, now, history, requests>>
    ELSE IF ~is_superuser(u)
    THEN Respond("tinymce_upload_image", 403) /\ UNCHANGED <<db, now, history, requests>>
    ELSE IF method = "POST" /\ file # Null
    THEN IF file[1].content_type \notin allowed_types
         THEN Respond("tinymce_upload_image", 400) /\ UNCHANGED <<db, now, history, requests>>
         ELSE IF file[1].size > MaxUploadBytes
         THEN Respond("tinymce_upload_image", 400) /\ UNCHANGED <<db, now, history, requests>>
         ELSE /\ Cardinality(stored_files) < MaxUploads
              /\ stored_files' = stored_files \cup
                    {[path |-> <<"tinymce", Cardinality(stored_files) + 1>>,
                      content_type |-> file[1].content_type]}
              /\ Respond("tinymce_upload_image", 200)
              /\ UNCHANGED <<submissions, objects, next_id, featured_rows, config,
                             now, history, requests>>
    ELSE Respond("tinymce_upload_image", 400) /\ UNCHANGED <<db, now, history, requests>>

\* --------------------------------------------------------- specifications
Next ==
    \/ Tick
    \/ \E m \in Methods, form \in SubmitForms : submit_content(m, form)
    \/ \E u \in Users, sid \in SubIds : approve_submission(u, sid)
    \/ \E u \in Users, sid \in SubIds : reject_submission(u, sid)
    \/ \E u \in Users, sid \in SubIds : preview_submission(u, sid)
    \/ \E m \in Methods, u \in Users, id \in RowIds : toggle_media_status(m, u, id)
    \/ \E u \in Users, k \in KindParams, id \in RowIds : toggle_content_visibility(u, k, id)
    \/ \E u \in Users, k \in KindParams, id \in RowIds : delete_content(u, k, id)
    \/ \E u \in Users, k \in KindParams, id \in RowIds, form \in EditForms :
          edit_content("POST", u, k, id, form)
    \/ \E u \in Users, k \in KindParams, id \in RowIds :
          edit_content("GET", u, k, id, NoForm)
    \/ \E u \in Users, k \in KindParams, id \in RowIds : feature_content(u, k, id)
    \/ \E m \in Methods, u \in Users, form \in HomeForms : homepage_editor(m, u, form)
    \/ \E m \in Methods, u \in Users, file \in UploadFiles : tinymce_upload_image(m, u, file)

\* Every view, every caller, from the empty database.
Spec == Init /\ [][Next]_vars

\* Submissions, their review and the clock.
NextModeration ==
    \/ Tick
    \/ \E m \in Methods, form \in SubmitForms : submit_content(m, form)
    \/ \E u \in Users, sid \in SubIds : approve_submission(u, sid)
    \/ \E u \in Users, sid \in SubIds : reject_submission(u, sid)
    \/ \E u \in Users, sid \in SubIds : preview_submission(u, sid)

SpecModeration == Init /\ [][NextModeration]_vars

\* Two submissions received at time 0 and not yet reviewed.
SeedPairs ==
    { <<f1, f2>> \in SubmitForms \X SubmitForms :
        <<f1.content_type, f2.content_type>> \in
            {<<"article", "artwork">>, <<"playlist", "session">>} }

Seeded(f1, f2) ==
    /\ submissions = Put(Put(<<>>, 1, Submission(f1, 0)), 2, Submission(f2, 0))
    /\ objects = [k \in model_map |-> <<>>]
    /\ next_id = [k \in Tables |-> IF k = "submission" THEN 3 ELSE 1]
    /\ stored_files = {}
    /\ now = 0
    /\ resp = [view |-> "submit_content", status |-> 302]
    /\ created_from = [i \in SubIds |-> 0]
    /\ feature_calls = [key \in FeatureKeys |-> 0]
    /\ requests = [w \in Workers |-> Idle]

InitContent ==
    /\ \E pair \in SeedPairs : Seeded(pair[1], pair[2])
    /\ featured_rows = <<>>
    /\ config = <<>>

\* An editor managing the content that approvals create.
NextContent ==
    \/ \E sid \in SubIds : approve_submission("editor", sid)
    \/ \E m \in Methods, id \in RowIds : toggle_media_status(m, "editor", id)
    \/ \E k \in KindParams, id \in RowIds : toggle_content_visibility("editor", k, id)
    \/ \E k \in KindParams, id \in RowIds : delete_content("editor", k, id)
    \/ \E k \in KindParams, id \in RowIds, form \in StatusForms :
          edit_content("POST", "editor", k, id, form)
    \/ \E k \in KindParams, id \in RowIds : edit_content("GET", "editor", k, id, NoForm)

SpecContent == InitContent /\ [][NextContent]_vars

\* Featuring, by any caller.
NextFeature ==
    \/ \E u \in Users, k \in KindParams, id \in RowIds : feature_content(u, k, id)

SpecFeature == Init /\ [][NextFeature]_vars

\* Two reviewed-or-not submissions, a FeaturedContent row or none, the
\* configuration row or none: a database the editors have worked on.
InitAccess ==
    /\ \E pair \in SeedPairs : Seeded(pair[1], pair[2])
    /\ featured_rows \in {<<>>, Put(<<>>, 1, NewFeatured("article", 1, "editor", 0))}
    /\ config \in {<<>>, get_current(<<>>, 0)}

\* The callers who are no authenticated superuser.
NonSuperusers == {"anonymous", "member"}

\* Review by any caller; every other view called by those who are no superuser.
NextAccess ==
    \/ \E u \in Users, sid \in SubIds : approve_submission(u, sid)
    \/ \E u \in Users, sid \in SubIds : reject_submission(u, sid)
    \/ \E m \in Methods, u \in NonSuperusers, id \in RowIds : toggle_media_status(m, u, id)
    \/ \E u \in NonSuperusers, k \in KindParams, id \in RowIds :
          toggle_content_visibility(u, k, id)
    \/ \E u \in NonSuperusers, k \in KindParams, id \in RowIds : delete_content(u, k, id)
    \/ \E u \in NonSuperusers, k \in KindParams, id \in RowIds, form \in EditForms :
          edit_content("POST", u, k, id, form)
    \/ \E u \in NonSuperusers, k \in KindParams, id \in RowIds : feature_content(u, k, id)
    \/ \E u \in NonSuperusers, form \in HomeForms : homepage_editor("POST", u, form)
    \/ \E u \in NonSuperusers, file \in UploadFiles : tinymce_upload_image("POST", u, file)

SpecAccess == InitAccess /\ [][NextAccess]_vars

\* Submissions of every content type, and their approval by an editor.
NextDispatch ==
    \/ Tick
    \/ \E form \in DispatchForms : submit_content("POST", form)
    \/ \E sid \in SubIds : approve_submission("editor", sid)

SpecDispatch == Init /\ [][NextDispatch]_vars

\* An editor at work from the empty database: one submission comes in, and the
\* editor reviews it and calls the endpoints keyed by content kind and id.
NextEditor ==
    \/ \E form \in SubmitForms : submit_content("POST", form)
    \/ \E sid \in SubIds : approve_submission("editor", sid)
    \/ \E sid \in SubIds : reject_submission("editor", sid)
    \/ \E k \in KindParams, id \in RowIds : toggle_content_visibility("editor", k, id)
    \/ \E k \in KindParams, id \in RowIds : delete_content("editor", k, id)
    \/ \E k \in KindParams, id \in RowIds :
          edit_content("POST", "editor", k, id, EditForm(ARCHIVED, Blank))
    \/ \E k \in KindParams, id \in RowIds : edit_content("GET", "editor", k, id, NoForm)
    \/ \E k \in {"article", "podcast"} : feature_content("editor", k, 1)

SpecEditor == Init /\ [][NextEditor]_vars

\* An article submission received and approved at time 0: the Article table
\* holds row 1, published.
InitHomepage ==
    LET s == Submission(Form("Spring show", "A review", "Ann", "article",
                             "<p>body</p>", Blank, Blank, Blank), 0)
    IN /\ submissions = Put(<<>>, 1, MarkApproved(s))
       /\ objects = [k \in model_map |->
                        IF k = "article" THEN Put(<<>>, 1, ApprovedRow(s, 0)) ELSE <<>>]
       /\ next_id = [k \in Tables |-> IF k \in {"submission", "article"} THEN 2 ELSE 1]
       /\ featured_rows = <<>>
       /\ config = <<>>
       /\ stored_files = {}
       /\ now = 0
       /\ resp = [view |-> "approve_submission", status |-> 200]
       /\ created_from = [i \in SubIds |-> IF i = 1 THEN 1 ELSE 0]
       /\ feature_calls = [key \in FeatureKeys |-> 0]
       /\ requests = [w \in Workers |-> Idle]

\* The homepage editor, called by anyone, and an editor's toggle, edit and
\* delete of articles.
NextHomepage ==
    \/ Tick
    \/ \E m \in Methods, u \in Users, form \in HomeForms : homepage_editor(m, u, form)
    \/ \E id \in RowIds : toggle_content_visibility("editor", "article", id)
    \/ \E id \in RowIds :
          edit_content("POST", "editor", "article", id, EditForm(ARCHIVED, Blank))
    \/ \E id \in RowIds : delete_content("editor", "article", id)

SpecHomepage == InitHomepage /\ [][NextHomepage]_vars

\* Two workers serving feature_content requests for articles at the same time.
NextRace ==
    \/ \E w \in Workers, u \in Users, id \in RowIds :
          feature_content_begin(w, u, "article", id)
    \/ \E w \in Workers : get_or_create_get(w)
    \/ \E w \in Workers : get_or_create_create(w)
    \/ \E w \in Workers : featured_save(w)

SpecRace == Init /\ [][NextRace]_vars

\* ------------------------------------------------------------------ claims
\* The last response.
Answered(view, code) == resp = [view |-> view, status |-> code]

\* The rows of table k that a step adds, and whether it leaves table k alone.
Added(k) == DOMAIN objects'[k] \ DOMAIN objects[k]
Kept(k) == \A id \in DOMAIN objects[k] :
               id \in DOMAIN objects'[k] /\ objects'[k][id] = objects[k][id]
Untouched(k) == objects'[k] = objects[k]

\* C1: approving a submission whose content_type is 'article' creates exactly
\* one new Article, published, with the submission's content_text as content,
\* and no Session, Playlist or Media.
C1_ArticleApproval ==
    [][\A sid \in SubIds :
          (/\ sid \in DOMAIN submissions
           /\ submissions[sid].content_type = "article"
           /\ approve_submission("editor", sid))
          => /\ Cardinality(Added("article")) = 1
             /\ Kept("article")
             /\ \A id \in Added("article") :
                   /\ objects'["article"][id].status = PUBLISHED
                   /\ objects'["article"][id].content = submissions[sid].content_text
             /\ Untouched("session") /\ Untouched("playlist") /\ Untouched("media")]_vars

\* C1 witness: an article submission has been approved and its Article is there.
C1_Witness ==
    /\ Answered("approve_submission", 200)
    /\ \E sid \in DOMAIN submissions :
          /\ submissions[sid].content_type = "article"
          /\ submissions[sid].approved
          /\ \E id \in DOMAIN objects["article"] :
                objects["article"][id].content = submissions[sid].content_text

\* C2: rejecting a submission, whether unreviewed, approved or rejected before,
\* sets reviewed, clears approved and leaves the four content tables as they were.
C2_Rejection ==
    [][\A sid \in SubIds :
          (sid \in DOMAIN submissions /\ reject_submission("editor", sid))
          => /\ submissions'[sid].reviewed
             /\ ~submissions'[sid].approved
             /\ objects' = objects
             /\ next_id' = next_id]_vars

\* C2 witness: a submission that had been approved has been rejected.
C2_Witness ==
    /\ Answered("reject_submission", 200)
    /\ \E sid \in DOMAIN submissions :
          /\ created_from[sid] >= 1
          /\ submissions[sid].reviewed
          /\ ~submissions[sid].approved

\* A request of caller u to one of the mutating views.
MutatingJsonCall(u) ==
    \/ \E sid \in SubIds : approve_submission(u, sid)
    \/ \E sid \in SubIds : reject_submission(u, sid)
    \/ \E id \in RowIds : toggle_media_status("POST", u, id)
    \/ \E k \in KindParams, id \in RowIds : toggle_content_visibility(u, k, id)
    \/ \E k \in KindParams, id \in RowIds : delete_content(u, k, id)
    \/ \E k \in KindParams, id \in RowIds, form \in EditForms :
          edit_content("POST", u, k, id, form)
    \/ \E k \in KindParams, id \in RowIds : feature_content(u, k, id)
    \/ \E file \in UploadFiles : tinymce_upload_image("POST", u, file)

MutatingCall(u) ==
    \/ MutatingJsonCall(u)
    \/ \E form \in HomeForms : homepage_editor("POST", u, form)

\* C3: a call to a mutating view by a caller who is no authenticated superuser
\* changes no stored row: nothing is created, modified or deleted.
C3_UnauthorizedNoChange ==
    [][\A u \in NonSuperusers : MutatingCall(u) => UNCHANGED db]_vars

\* C3 witness: a delete was refused while the tables hold rows, a FeaturedContent
\* row and the configuration.
C3_Witness ==
    /\ Answered("delete_content", 403)
    /\ \E k \in model_map : DOMAIN objects[k] # {}
    /\ DOMAIN featured_rows # {}
    /\ DOMAIN config # {}

\* C4: every mutating JSON view answers a caller who is no authenticated
\* superuser, anonymous or logged in, with 403.
C4_Unauthorized403 ==
    [][\A u \in NonSuperusers : MutatingJsonCall(u) => resp'.status = 403]_vars

\* C5: a toggle (toggle_content_visibility on any kind, toggle_media_status on
\* Media) turns a published row private, and a private row published: two
\* toggles take a published row back to published.
C5_ToggleRoundTrip ==
    [][\A k \in model_map, id \in RowIds :
          (/\ id \in DOMAIN objects[k]
           /\ \/ toggle_content_visibility("editor", k, id)
              \/ k = "media" /\ toggle_media_status("POST", "editor", id))
          => /\ id \in DOMAIN objects'[k]
             /\ objects[k][id].status = PUBLISHED => objects'[k][id].status = PRIVATE
             /\ objects[k][id].status = PRIVATE => objects'[k][id].status = PUBLISHED]_vars

\* C5 witness: the only row ever created, never edited, is published again
\* after a toggle: it went from published to private and back.
C5_Witness ==
    /\ Answered("toggle_content_visibility", 200)
    /\ RowsCreated = 1
    /\ \E k \in model_map :
          /\ 1 \in DOMAIN objects[k]
          /\ objects[k][1].status = PUBLISHED
          /\ objects[k][1].title # "Edited"

\* C6: a key has a FeaturedContent row exactly when feature_content was called
\* for it, and after n calls featured_on_homepage is true exactly when n is odd.
C6_FeatureParity ==
    \A key \in FeatureKeys :
        /\ (FeaturedOf(key) # {}) <=> (feature_calls[key] > 0)
        /\ \A pk \in FeaturedOf(key) :
              featured_rows[pk].featured_on_homepage <=> (feature_calls[key] % 2 = 1)

\* C6 witness: a third call has set the flag again.
C6_Witness ==
    \E key \in FeatureKeys : \E pk \in FeaturedOf(key) :
        feature_calls[key] = 3 /\ featured_rows[pk].featured_on_homepage

\* Row id of table k was created and has been deleted.
Gone(k, id) == id < next_id[k] /\ id \notin DOMAIN objects[k]

\* C7: a deleted row stays deleted, and a later toggle, delete or edit addressed
\* to it answers 404 and changes nothing.
C7_DeletedStaysGone ==
    [][\A k \in model_map, id \in RowIds :
          Gone(k, id)
          => /\ id \notin DOMAIN objects'[k]
             /\ (\/ toggle_content_visibility("editor", k, id)
                 \/ k = "media" /\ toggle_media_status("POST", "editor", id)
                 \/ delete_content("editor", k, id)
                 \/ edit_content("GET", "editor", k, id, NoForm)
                 \/ \E form \in EditForms : edit_content("POST", "editor", k, id, form))
                => resp'.status = 404 /\ UNCHANGED db]_vars

\* C7 witness: row 1 of a table was deleted, row 2 was created after it, and an
\* edit has been answered 404.
C7_Witness ==
    /\ Answered("edit_content", 404)
    /\ \E k \in model_map : Gone(k, 1) /\ 2 \in DOMAIN objects[k]

\* C8: approving a submission whose content_type is 'playlist' creates exactly
\* one Playlist with the submission's platform and playlist_url, published, and
\* published_at the time of the approval.
C8_PlaylistApproval ==
    [][\A sid \in SubIds :
          (/\ sid \in DOMAIN submissions
           /\ submissions[sid].content_type = "playlist"
           /\ approve_submission("editor", sid))
          => /\ Cardinality(Added("playlist")) = 1
             /\ Kept("playlist")
             /\ \A id \in Added("playlist") :
                   /\ objects'["playlist"][id].platform = submissions[sid].platform
                   /\ objects'["playlist"][id].playlist_url = submissions[sid].playlist_url
                   /\ objects'["playlist"][id].status = PUBLISHED
                   /\ objects'["playlist"][id].published_at = <<now>>
             /\ Untouched("article") /\ Untouched("session") /\ Untouched("media")]_vars

\* C8 witness: a playlist submitted at one time was approved at a later one.
C8_Witness ==
    /\ Answered("approve_submission", 200)
    /\ \E sid \in DOMAIN submissions, id \in DOMAIN objects["playlist"] :
          /\ submissions[sid].content_type = "playlist"
          /\ submissions[sid].approved
          /\ objects["playlist"][id].playlist_url = SpotifyUrl
          /\ objects["playlist"][id].published_at[1] > submissions[sid].created_at

\* C9: at most one content row is created from a submission, and exactly one
\* from an approved submission.
C9_OneEntityPerSubmission ==
    \A sid \in DOMAIN submissions :
        /\ created_from[sid] <= 1
        /\ submissions[sid].approved => created_from[sid] = 1

\* The fields of a submission that the contributor gave.
Contributor(s) ==
    [title |-> s.title, description |-> s.description, author_name |-> s.author_name,
     author_email |-> s.author_email, author_class_year |-> s.author_class_year,
     content_type |-> s.content_type, content_text |-> s.content_text,
     playlist_url |-> s.playlist_url, platform |-> s.platform, files |-> s.files,
     created_at |-> s.created_at]

\* C10: no step of the moderation workflow changes a contributor field of a
\* submission that exists: only reviewed and approved change.
C10_SubmissionImmutable ==
    [][\A sid \in DOMAIN submissions :
          /\ sid \in DOMAIN submissions'
          /\ Contributor(submissions'[sid]) = Contributor(submissions[sid])]_vars

\* C10 witness: a submission has been approved, rejected and then previewed.
C10_Witness ==
    /\ Answered("preview_submission", 200)
    /\ \E sid \in DOMAIN submissions :
          /\ created_from[sid] >= 1
          /\ submissions[sid].reviewed
          /\ ~submissions[sid].approved

\* C11: whatever the status of a row (pending, published, archived, private,
\* rejected), after toggle_content_visibility, or toggle_media_status on Media,
\* its status is published or private.
C11_ToggleTwoState ==
    [][\A k \in model_map, id \in RowIds :
          (/\ id \in DOMAIN objects[k]
           /\ \/ toggle_content_visibility("editor", k, id)
              \/ k = "media" /\ toggle_media_status("POST", "editor", id))
          => /\ id \in DOMAIN objects'[k]
             /\ objects'[k][id].status \in {PUBLISHED, PRIVATE}
             /\ objects[k][id].status \notin {PUBLISHED, PRIVATE}
                => objects'[k][id].status = PUBLISHED]_vars

\* C11 witness: a row that the edit form had set to pending, archived or
\* rejected has been toggled and is published.
C11_Witness ==
    /\ resp.status = 200
    /\ resp.view \in {"toggle_content_visibility", "toggle_media_status"}
    /\ \E k \in model_map : \E id \in DOMAIN objects[k] :
          /\ objects[k][id].title = "Edited"
          /\ objects[k][id].status = PUBLISHED

\* The table the claim names for a content type.
C12_Table(ct) ==
    CASE ct = "article" -> "article"
      [] ct = "playlist" -> "playlist"
      [] ct \in {"session", "interview"} -> "session"
      [] ct \in {"artwork", "photography", "media"} -> "media"
      [] OTHER -> "article"

C12_Named == {"article", "playlist", "session", "interview", "artwork", "photography", "media"}

\* C12: an approval adds exactly one row, to the table its content_type selects
\* (article: Article; playlist: Playlist; session, interview: Session; artwork,
\* photography, media: Media; anything else: Article), and touches no other
\* table; the row has the submission's title, description and author fields and
\* status published; for a content_type outside those seven its content is
\* content_text, or the description when content_text is empty.
C12_ApprovalDispatch ==
    [][\A sid \in SubIds :
          (sid \in DOMAIN submissions /\ approve_submission("editor", sid))
          => LET s == submissions[sid]
                 k == C12_Table(s.content_type)
             IN /\ Cardinality(Added(k)) = 1
                /\ Kept(k)
                /\ \A other \in model_map \ {k} : Untouched(other)
                /\ \A id \in Added(k) :
                      LET row == objects'[k][id]
                      IN /\ row.title = s.title
                         /\ row.description = s.description
                         /\ row.author_name = s.author_name
                         /\ row.author_email = s.author_email
                         /\ row.author_class_year = s.author_class_year
                         /\ row.status = PUBLISHED
                         /\ s.content_type = "article" => row.content = s.content_text
                         /\ s.content_type \notin C12_Named
                            => row.content = IF s.content_text # Blank
                                             THEN s.content_text ELSE s.description]_vars

\* C12 witness: an approved 'event' submission without body text has become an
\* Article whose content is the description, approved after it was submitted.
C12_Witness ==
    /\ Answered("approve_submission", 200)
    /\ \E sid \in DOMAIN submissions : \E id \in DOMAIN objects["article"] :
          /\ submissions[sid].content_type = "event"
          /\ submissions[sid].content_text = Blank
          /\ submissions[sid].approved
          /\ objects["article"][id].content_type = "event"
          /\ objects["article"][id].content = submissions[sid].description
          /\ objects["article"][id].published_at[1] > submissions[sid].created_at

\* A request of the editor to one of the four endpoints keyed by content kind
\* and id.
KindKeyedCall(k, id) ==
    \/ toggle_content_visibility("editor", k, id)
    \/ delete_content("editor", k, id)
    \/ edit_content("GET", "editor", k, id, NoForm)
    \/ \E form \in EditForms : edit_content("POST", "editor", k, id, form)
    \/ feature_content("editor", k, id)

\* C13: an authorized toggle, delete, edit or feature request whose content
\* kind is none of article, session, playlist, media is answered 400 and changes
\* no stored row.
C13_InvalidKind400 ==
    [][\A k \in KindParams \ model_map, id \in RowIds :
          KindKeyedCall(k, id) => resp'.status = 400 /\ UNCHANGED db]_vars

\* A target that is not there: a submission id that no submission has, a row id
\* that no row of the table has; and an editor's request addressed to it.
MissingSubmissionCall(sid) ==
    /\ sid \notin DOMAIN submissions
    /\ approve_submission("editor", sid) \/ reject_submission("editor", sid)

MissingRowCall(k, id) ==
    /\ id \notin DOMAIN objects[k]
    /\ KindKeyedCall(k, id)

\* C14: an authorized approve or reject of a submission id that does not exist,
\* and an authorized toggle, delete, edit or feature of a content id that does
\* not exist (never created, or deleted), is answered 404 and creates or
\* modifies no row.
C14_MissingTarget404 ==
    [][/\ \A sid \in SubIds :
             MissingSubmissionCall(sid) => resp'.status = 404 /\ UNCHANGED db
       /\ \A k \in model_map, id \in RowIds :
             MissingRowCall(k, id) => resp'.status = 404 /\ UNCHANGED db]_vars

\* An editor's request to the homepage editor, by either method, and by GET,
\* which does nothing but HomepageConfig.get_current().
EditorOpens == \E m \in Methods, form \in HomeForms : homepage_editor(m, "editor", form)
EditorGets == \E form \in HomeForms : homepage_editor("GET", "editor", form)

\* C15: before and after every step there is at most one HomepageConfig row,
\* and its key is 1; an editor's request while there is no row creates row 1,
\* which a GET leaves at the defaults of get_current; while there is a row, the
\* request keeps that row (same key, same created_at), and a GET leaves it
\* unchanged.
C15_ConfigSingleton ==
    [][/\ Cardinality(DOMAIN config) <= 1 /\ DOMAIN config \subseteq {1}
       /\ Cardinality(DOMAIN config') <= 1 /\ DOMAIN config' \subseteq {1}
       /\ (resp'.status = 200 /\ EditorOpens)
          => /\ DOMAIN config' = {1}
             /\ config # <<>> => config'[1].created_at = config[1].created_at
       /\ (resp'.status = 200 /\ EditorGets)
          => /\ config # <<>> => config' = config
             /\ config = <<>>
                => /\ config'[1].sections_order = <<"featured", "sessions", "playlists">>
                   /\ config'[1].sessions_count = 3
                   /\ config'[1].playlists_count = 3
                   /\ config'[1].show_featured_section
                   /\ config'[1].show_sessions_section
                   /\ config'[1].show_playlists_section
                   /\ config'[1].featured_article = Null
                   /\ config'[1].created_at = now]_vars

\* C15 witness: the row created at time 0 and changed by a POST since is there
\* after a request made at a later time.
C15_Witness ==
    /\ Answered("homepage_editor", 200)
    /\ DOMAIN config = {1}
    /\ config[1].hero_title = "WDCR"
    /\ config[1].created_at < config[1].updated_at
    /\ config[1].updated_at = now

\* C16: in every state, HomepageConfig.featured_article is unset or is the id
\* of an Article that exists and whose status is published.
C16_FeaturedPublished ==
    \A pk \in DOMAIN config :
        \/ config[pk].featured_article = Null
        \/ /\ config[pk].featured_article[1] \in DOMAIN objects["article"]
           /\ objects["article"][config[pk].featured_article[1]].status = PUBLISHED

\* An editor's POST to the homepage editor that leaves the configuration with
\* the item counts the form carries.
PostSetsCounts(form) ==
    /\ homepage_editor("POST", "editor", form)
    /\ config'[1].sessions_count = form.sessions_count
    /\ config'[1].playlists_count = form.playlists_count

\* C17: an editor can update the item counts: in every state some authorized
\* POST to the homepage editor, with one of its actions, sets sessions_count
\* and playlists_count of the configuration to the values the form supplies.
C17_CountsEditable == ENABLED (\E form \in HomeForms : PostSetsCounts(form))

\* The flag of a FeaturedContent row.
Flag(row) == row.featured_on_homepage

\* C18: the save of a feature_content call stores the flip of the flag that call
\* read, whatever the row holds by then, and leaves the copies of the other
\* workers alone: of two calls that both read flag v before either wrote, each
\* writes ~v, so the row ends at ~v, the value of the last write, one flip of v
\* and not two; the last writer is the one recorded in featured_by.
C18_LastWriteWins ==
    [][\A w \in Workers :
          (requests[w].pc = "flip" /\ featured_save(w))
          => LET featured == requests[w].featured[1]
                 stored == featured_rows[featured.pk]
                 saved == featured_rows'[featured.pk]
             IN /\ Flag(saved) = ~Flag(featured.row)
                /\ saved.featured_by = requests[w].user[1]
                /\ Flag(stored) # Flag(featured.row) => Flag(saved) = Flag(stored)
                /\ \A other \in Workers \ {w} : requests'[other] = requests[other]]_vars

\* C18 witness: three calls for one article are answered and the flag is off,
\* where three calls one after another leave it on: the second and the third
\* both read the flag on and both wrote it off.
C18_Witness ==
    /\ Answered("feature_content", 200)
    /\ \A w \in Workers : requests[w].pc = "idle"
    /\ \E id \in RowIds :
          /\ feature_calls[<<"article", id>>] = 3
          /\ \E pk \in FeaturedOf(<<"article", id>>) : ~Flag(featured_rows[pk])

\* C19: in every state, also while feature_content calls for the same pair are
\* in flight together, no two FeaturedContent rows have the same
\* (content_type, object_id).
C19_UniqueFeatured ==
    \A key \in FeatureKeys : Cardinality(FeaturedOf(key)) <= 1

\* C19 witness: two calls for a pair without a row both found none; one
\* inserted the row, the INSERT of the other was refused, and both calls are
\* answered.
C19_Witness ==
    /\ Answered("feature_content", 200)
    /\ \A w \in Workers : requests[w].pc = "idle"
    /\ \E w \in Workers : requests[w].integrity_error
    /\ \E id \in RowIds :
          /\ feature_calls[<<"article", id>>] = 2
          /\ Cardinality(FeaturedOf(<<"article", id>>)) = 1

\* C20: before and after every step of the moderation workflow, a submission
\* that is approved is reviewed; and a submission that is reviewed is still
\* there and still reviewed after the step.
C20_ReviewedStable ==
    [][/\ \A sid \in DOMAIN submissions :
             submissions[sid].approved => submissions[sid].reviewed
       /\ \A sid \in DOMAIN submissions' :
             submissions'[sid].approved => submissions'[sid].reviewed
       /\ \A sid \in DOMAIN submissions :
             submissions[sid].reviewed
             => sid \in DOMAIN submissions' /\ submissions'[sid].reviewed]_vars

\* C20 witness: a submission has been approved twice and is reviewed and
\* approved.
C20_Witness ==
    /\ Answered("approve_submission", 200)
    /\ \E sid \in DOMAIN submissions :
          /\ created_from[sid] = 2
          /\ submissions[sid].reviewed
          /\ submissions[sid].approved

====
